---- MODULE Spec2Model ----
(***************************************************************************)
(* The lines-of-code cache of today.py: loc_query gathers the repository   *)
(* listing, cache_builder reconciles it with the cache file, walks the     *)
(* stale repositories with recursive_loc / loc_counter_one_repo and        *)
(* persists the records; force_close_file saves the records on a fatal     *)
(* response.  One process runs at a time; it can be terminated at any      *)
(* step, and the remote histories only grow.                               *)
(***************************************************************************)
EXTENDS Integers, Sequences, FiniteSets, TLC

\* ---------------------------------------------------------------- bounds
MaxCommits == 2      \* commits ever pushed, over all repositories
CommentSize == 1     \* comment_size, the header line count (7 in __main__)
PageSize == 1        \* commits per history page (first: 100 in the query)
ListPageSize == 1    \* repositories per listing page (first: 60 in the query)
MaxCalls == 2        \* loc_query calls made by one process
MaxPage == 3         \* commits of a page handed to loc_counter_one_repo alone

\* ------------------------------------------------------ program constants
max_attempts == 4

OWNER_ID == "me"

\* A file of the cache directory: absent, or its lines.
File(ls) == [exists |-> TRUE, lines |-> ls]
NoFile == [exists |-> FALSE, lines |-> <<>>]
NoBranch == -1

Repos == {"a", "b", "c"}

\* The repositories that receive pushes; the others stay without a branch.
PushRepos == {"a", "b"}

\* The listings the remote can return (GetRepositorySet), in listing order.
RepoLists == {<<"a">>, <<"a", "b">>, <<"a", "c">>}

\* A commit of a history page (the node of the query, line 173-184): its
\* author, additions, deletions.  author is the value of author.user
\* (OWNER_ID, another account, or "none" when user is null: no account is
\* linked to the commit), or "noauthor" when author itself is null, which
\* the schema allows.
CommitKinds ==
  { [author |-> "me",       additions |-> 2, deletions |-> 1],
    [author |-> "other",    additions |-> 3, deletions |-> 2],
    [author |-> "none",     additions |-> 1, deletions |-> 1],
    [author |-> "noauthor", additions |-> 1, deletions |-> 2] }

Min(x, y) == IF x < y THEN x ELSE y
Max(x, y) == IF x > y THEN x ELSE y

Take(s, n) == SubSeq(s, 1, Min(n, Len(s)))
Drop(s, n) == IF n >= Len(s) THEN <<>> ELSE SubSeq(s, n + 1, Len(s))

\* hashlib.sha256(nameWithOwner).hexdigest(): a digest, distinct per name and
\* different from the name itself.
Key(n) == CASE n = "a" -> "h_a" [] n = "b" -> "h_b" [] n = "c" -> "h_c"

\* One line of the cache file: 'key total my add del\n'.
Line(k, t, m, a, d) == [key |-> k, total |-> t, my |-> m, add |-> a, del |-> d]

\* The comment line cache_builder writes on first run.  Its words are not
\* numbers: only the first word ('This') is ever compared, as a key.
HeaderLine == Line("This", 0, 0, 0, 0)

ZeroRecord(n) == Line(Key(n), 0, 0, 0, 0)

\* A line a hand has edited can lack fields or hold a word where a counter
\* belongs: Missing stands for a field the line does not have, NaN for a
\* word int() rejects.
Missing == -3
NaN == -2

\* Line 332: repo_hash, commit_count, *__ = line.split() needs two fields.
Unpacks(line) == line.total # Missing

\* Line 335: int(commit_count).
IntCount(line) == line.total # NaN

\* Line 349-351: loc[3] or loc[4] is absent (IndexError) or no integer
\* (ValueError).
SumRaises(line) ==
  line = HeaderLine \/ line.add \in {NaN, Missing} \/ line.del \in {NaN, Missing}

VARIABLES
  remote,        \* remote[r]: the commits of r's default branch, oldest first
  file,          \* the cache file
  tmp,           \* the '.tmp' file beside it
  pc,            \* where the process is
  calls,         \* loc_query calls made by this process
  defaultEdges,  \* the list object that is loc_query's default for edges
  listing,       \* the listing the remote serves to this pass
  force_cache,   \* the force_cache argument
  lcursor,       \* repositories listed so far
  edges,         \* the edges passed to cache_builder
  data,          \* cache_builder's data
  cache_comment, \* cache_builder's cache_comment
  index,         \* the loop index of cache_builder
  cached,        \* cache_builder's cached
  wcursor,       \* recursive_loc's cursor: commits older than it, -1 for None
  acc,           \* addition_total, deletion_total, my_commits
  attempt,       \* recursive_loc's attempt
  result,        \* what cache_builder returned
  outcome,       \* how the last pass ended
  \* History variables: they record what happened and steer nothing.
  preFile,       \* the cache file when the pass began
  base,          \* the records in data when the loop began
  seen,          \* per position visited by the loop, what the loop did
  finRec,        \* position -> the record the loop wrote there in this pass
  pushed,        \* a push happened since the pass began
  prev           \* the pass this pass repeats, in short; NoPrev if none

vars == <<remote, file, tmp, pc, calls, defaultEdges, listing, force_cache,
          lcursor, edges, data, cache_comment, index, cached, wcursor, acc,
          attempt, result, outcome, preFile, base, seen, finRec, pushed,
          prev>>

NoAcc == [add |-> 0, del |-> 0, my |-> 0]
NoResult == <<>>
NoPrev == [outcome |-> "none", index |-> 0, fin |-> {}]

TotalCommits == LET S[rs \in SUBSET Repos] ==
                      IF rs = {} THEN 0
                      ELSE LET r == CHOOSE x \in rs : TRUE
                           IN Len(remote[r]) + S[rs \ {r}]
                IN S[Repos]

\* ------------------------------------------------------------ the remote

\* A push: one more commit on a default branch.  Histories are append-only.
Push(r, c) ==
  /\ TotalCommits < MaxCommits
  /\ remote' = [remote EXCEPT ![r] = Append(@, c)]
  /\ pushed' = TRUE
  /\ prev' = NoPrev
  /\ UNCHANGED <<file, tmp, pc, calls, defaultEdges, listing, force_cache,
                 lcursor, edges, data, cache_comment, index, cached, wcursor,
                 acc, attempt, result, outcome, preFile, base, seen, finRec>>

\* The node loc_query receives for a repository: its name and
\* defaultBranchRef.target.history.totalCount, defaultBranchRef being null
\* for a repository without commits.
Edge(n) == [name |-> n,
            total |-> IF remote[n] = <<>> THEN NoBranch ELSE Len(remote[n])]

ListPage(L, cur) ==
  [i \in 1 .. (Min(cur + ListPageSize, Len(L)) - cur) |-> Edge(L[cur + i])]

ListHasNext(L, cur) == cur + ListPageSize < Len(L)

\* ------------------------------------------------------------- loc_query

\* What a pass remembers of the pass before it, when it repeats that pass:
\* the same listing, no force_cache, no push since that pass began.
PassSummary(L, f) ==
  IF outcome \in {"returned", "RuntimeError"} /\ ~pushed /\ listing = L /\ ~f
  THEN [outcome |-> outcome,
        index |-> IF outcome = "RuntimeError" THEN index ELSE 0,
        fin |-> IF outcome = "RuntimeError" THEN DOMAIN finRec ELSE {}]
  ELSE NoPrev

\* loc_query is called: the locals of the call are fresh.
PassInit(L, f) ==
  /\ listing' = L
  /\ force_cache' = f
  /\ lcursor' = 0
  /\ edges' = <<>>
  /\ data' = <<>>
  /\ cache_comment' = <<>>
  /\ index' = 0
  /\ cached' = TRUE
  /\ wcursor' = -1
  /\ acc' = NoAcc
  /\ attempt' = 0
  /\ result' = NoResult
  /\ outcome' = "running"
  /\ pc' = "loc_query"
  /\ preFile' = file
  /\ base' = <<>>
  /\ seen' = <<>>
  /\ finRec' = <<>>
  /\ pushed' = FALSE
  /\ prev' = PassSummary(L, f)

StartProcess(L, f) ==
  /\ pc \in {"idle", "returned"}
  /\ calls' = 1
  /\ defaultEdges' = <<>>
  /\ PassInit(L, f)
  /\ UNCHANGED <<remote, file, tmp>>

\* The same process calls loc_query once more: the default list object of
\* edges is the one the earlier calls have extended.
CallAgain(L, f) ==
  /\ pc = "returned"
  /\ calls < MaxCalls
  /\ calls' = calls + 1
  /\ PassInit(L, f)
  /\ UNCHANGED <<remote, file, tmp, defaultEdges>>

\* Line 299-301: the page has a next page; edges += page extends the default
\* list in place and the recursive call receives the same object.
LocQueryMore ==
  /\ pc = "loc_query"
  /\ ListHasNext(listing, lcursor)
  /\ defaultEdges' = defaultEdges \o ListPage(listing, lcursor)
  /\ lcursor' = lcursor + ListPageSize
  /\ UNCHANGED <<remote, file, tmp, pc, calls, listing, force_cache, edges,
                 data, cache_comment, index, cached, wcursor, acc, attempt,
                 result, outcome>>
  /\ UNCHANGED <<preFile, base, seen, finRec, pushed, prev>>

\* Line 302-303: the last page; cache_builder gets a new list, edges + page.
LocQueryLast ==
  /\ pc = "loc_query"
  /\ ~ListHasNext(listing, lcursor)
  /\ edges' = defaultEdges \o ListPage(listing, lcursor)
  /\ pc' = "open"
  /\ UNCHANGED <<remote, file, tmp, calls, defaultEdges, listing, force_cache,
                 lcursor, data, cache_comment, index, cached, wcursor, acc,
                 attempt, result, outcome>>
  /\ UNCHANGED <<preFile, base, seen, finRec, pushed, prev>>

\* The process ends with an exception or is terminated: its memory is gone.
\* A '.tmp' left behind is never read (every writer opens it with 'w'
\* first), so it is not kept.
ProcessEnds(how) ==
  /\ pc' = "idle"
  /\ outcome' = how
  /\ tmp' = NoFile
  /\ calls' = 0
  /\ defaultEdges' = <<>>
  /\ listing' = IF how = "RuntimeError" THEN listing ELSE <<>>
  /\ force_cache' = FALSE
  /\ lcursor' = 0
  /\ edges' = <<>>
  /\ data' = <<>>
  /\ cache_comment' = <<>>
  /\ index' = IF how = "RuntimeError" THEN index ELSE 0
  /\ cached' = TRUE
  /\ wcursor' = -1
  /\ acc' = NoAcc
  /\ attempt' = 0
  /\ result' = NoResult
  /\ preFile' = NoFile
  /\ base' = <<>>
  /\ seen' = <<>>
  /\ finRec' = IF how = "RuntimeError" THEN finRec ELSE <<>>
  /\ pushed' = IF how = "RuntimeError" THEN pushed ELSE FALSE
  /\ prev' = NoPrev

\* Line 298: simple_request raises; nothing was opened or written.
LocQueryFail ==
  /\ pc = "loc_query"
  /\ ProcessEnds("ListingError")
  /\ UNCHANGED <<remote, file>>

\* ---------------------------------------------------------- cache_builder

\* Line 313-315: the cache file exists.
OpenExisting ==
  /\ pc = "open"
  /\ file.exists
  /\ data' = file.lines
  /\ pc' = "check"
  /\ UNCHANGED <<remote, file, tmp, calls, defaultEdges, listing, force_cache,
                 lcursor, edges, cache_comment, index, cached, wcursor, acc,
                 attempt, result, outcome>>
  /\ UNCHANGED <<preFile, base, seen, finRec, pushed, prev>>

FirstRunData == [i \in 1 .. CommentSize |-> HeaderLine]

\* Line 316-320: no cache file; open(filename, 'w') creates it empty.
OpenMissing ==
  /\ pc = "open"
  /\ ~file.exists
  /\ data' = FirstRunData
  /\ file' = File(<<>>)
  /\ pc' = "create"
  /\ UNCHANGED <<remote, tmp, calls, defaultEdges, listing, force_cache,
                 lcursor, edges, cache_comment, index, cached, wcursor, acc,
                 attempt, result, outcome>>
  /\ UNCHANGED <<preFile, base, seen, finRec, pushed, prev>>

\* Line 321: the buffered lines reach the file when it is closed.
CreateWrite ==
  /\ pc = "create"
  /\ file' = File(data)
  /\ pc' = "check"
  /\ UNCHANGED <<remote, tmp, calls, defaultEdges, listing, force_cache,
                 lcursor, edges, data, cache_comment, index, cached, wcursor,
                 acc, attempt, result, outcome>>
  /\ UNCHANGED <<preFile, base, seen, finRec, pushed, prev>>

\* Line 323.
NeedsRebuild(d, e, f) == Len(d) - CommentSize # Len(e) \/ f

SkeletonValid ==
  /\ pc = "check"
  /\ ~NeedsRebuild(data, edges, force_cache)
  /\ pc' = "split"
  /\ UNCHANGED <<remote, file, tmp, calls, defaultEdges, listing, force_cache,
                 lcursor, edges, data, cache_comment, index, cached, wcursor,
                 acc, attempt, result, outcome>>
  /\ UNCHANGED <<preFile, base, seen, finRec, pushed, prev>>

\* Line 324.
SkeletonInvalid ==
  /\ pc = "check"
  /\ NeedsRebuild(data, edges, force_cache)
  /\ cached' = FALSE
  /\ pc' = "flush"
  /\ UNCHANGED <<remote, file, tmp, calls, defaultEdges, listing, force_cache,
                 lcursor, edges, data, cache_comment, index, wcursor, acc,
                 attempt, result, outcome>>
  /\ UNCHANGED <<preFile, base, seen, finRec, pushed, prev>>

\* ------------------------------------------------------------ flush_cache

\* Line 360-363: the comment kept by flush_cache.
FlushHeader(ls) == IF CommentSize > 0 THEN Take(ls, CommentSize) ELSE <<>>

\* Line 367-368.
Skeleton(e) == [i \in 1 .. Len(e) |-> ZeroRecord(e[i].name)]

\* Line 364-368: the temporary file is written in full.
FlushWrite ==
  /\ pc = "flush"
  /\ tmp' = File(FlushHeader(file.lines) \o Skeleton(edges))
  /\ pc' = "flush_replace"
  /\ UNCHANGED <<remote, file, calls, defaultEdges, listing, force_cache,
                 lcursor, edges, data, cache_comment, index, cached, wcursor,
                 acc, attempt, result, outcome>>
  /\ UNCHANGED <<preFile, base, seen, finRec, pushed, prev>>

\* Line 369, then 326-327: os.replace, and cache_builder reads the file again.
FlushReplace ==
  /\ pc = "flush_replace"
  /\ file' = tmp
  /\ tmp' = NoFile
  /\ data' = tmp.lines
  /\ pc' = "split"
  /\ UNCHANGED <<remote, calls, defaultEdges, listing, force_cache, lcursor,
                 edges, cache_comment, index, cached, wcursor, acc, attempt,
                 result, outcome>>
  /\ UNCHANGED <<preFile, base, seen, finRec, pushed, prev>>

\* Line 329-330.
Split ==
  /\ pc = "split"
  /\ cache_comment' = Take(data, CommentSize)
  /\ data' = Drop(data, CommentSize)
  /\ index' = 0
  /\ pc' = "loop"
  /\ UNCHANGED <<remote, file, tmp, calls, defaultEdges, listing, force_cache,
                 lcursor, edges, cached, wcursor, acc, attempt, result,
                 outcome>>
  /\ base' = Drop(data, CommentSize)
  /\ UNCHANGED <<preFile, seen, finRec, pushed, prev>>

\* ------------------------------------------- the loop of cache_builder

\* Line 331: the loop is over.
LoopEnd ==
  /\ pc = "loop"
  /\ index = Len(edges)
  /\ pc' = "persist"
  /\ UNCHANGED <<remote, file, tmp, calls, defaultEdges, listing, force_cache,
                 lcursor, edges, data, cache_comment, index, cached, wcursor,
                 acc, attempt, result, outcome>>
  /\ UNCHANGED <<preFile, base, seen, finRec, pushed, prev>>

\* Line 332: data[index] with index past the end of data raises IndexError,
\* which nothing catches.
LoopIndexError ==
  /\ pc = "loop"
  /\ index < Len(edges)
  /\ index >= Len(data)
  /\ ProcessEnds("IndexError")
  /\ UNCHANGED <<remote, file>>

InLoop == pc = "loop" /\ index < Len(edges) /\ index < Len(data)

KeyMatches_Always(line, e) == TRUE
\* Line 333.
KeyMatches(line, e) == line.key = Key(e.name)

IsStale_Always(line, e) == TRUE
\* Line 335: the stored count differs from the fetched totalCount.
IsStale(line, e) == line.total # e.total

\* Line 332, 335: a line of fewer than two fields cannot be unpacked, and
\* int() of a count that is no integer fails once the key has matched; both
\* raise ValueError, which the except TypeError of line 340 lets through.
LoopValueError ==
  /\ InLoop
  /\ \/ ~Unpacks(data[index + 1])
     \/ /\ KeyMatches(data[index + 1], edges[index + 1])
        /\ ~IntCount(data[index + 1])
  /\ ProcessEnds("ValueError")
  /\ UNCHANGED <<remote, file>>

\* Line 333 is false: nothing is done for this position.
KeyMismatch ==
  /\ InLoop
  /\ Unpacks(data[index + 1])
  /\ ~KeyMatches(data[index + 1], edges[index + 1])
  /\ index' = index + 1
  /\ UNCHANGED <<remote, file, tmp, pc, calls, defaultEdges, listing,
                 force_cache, lcursor, edges, data, cache_comment, cached,
                 wcursor, acc, attempt, result, outcome>>
  /\ seen' = Append(seen, "mismatch")
  /\ UNCHANGED <<preFile, base, finRec, pushed, prev>>

\* The same position without the except clause of line 340.
EmptyRepo_Uncaught ==
  /\ InLoop
  /\ KeyMatches(data[index + 1], edges[index + 1])
  /\ edges[index + 1].total = NoBranch
  /\ ProcessEnds("TypeError")
  /\ UNCHANGED <<remote, file>>

\* Line 335, 340-341: defaultBranchRef is None, the subscript raises
\* TypeError and the record becomes 'key 0 0 0 0'.
EmptyRepo ==
  /\ InLoop
  /\ Unpacks(data[index + 1]) /\ IntCount(data[index + 1])
  /\ KeyMatches(data[index + 1], edges[index + 1])
  /\ edges[index + 1].total = NoBranch
  /\ data' = [data EXCEPT ![index + 1] = Line(@.key, 0, 0, 0, 0)]
  /\ index' = index + 1
  /\ UNCHANGED <<remote, file, tmp, pc, calls, defaultEdges, listing,
                 force_cache, lcursor, edges, cache_comment, cached, wcursor,
                 acc, attempt, result, outcome>>
  /\ seen' = Append(seen, "empty")
  /\ finRec' = (index + 1 :> data'[index + 1]) @@ finRec
  /\ UNCHANGED <<preFile, base, pushed, prev>>

\* Line 335 is false: the stored count is the fetched one.
CacheHit ==
  /\ InLoop
  /\ Unpacks(data[index + 1]) /\ IntCount(data[index + 1])
  /\ KeyMatches(data[index + 1], edges[index + 1])
  /\ edges[index + 1].total # NoBranch
  /\ ~IsStale(data[index + 1], edges[index + 1])
  /\ index' = index + 1
  /\ UNCHANGED <<remote, file, tmp, pc, calls, defaultEdges, listing,
                 force_cache, lcursor, edges, data, cache_comment, cached,
                 wcursor, acc, attempt, result, outcome>>
  /\ seen' = Append(seen, "hit")
  /\ UNCHANGED <<preFile, base, finRec, pushed, prev>>

\* Line 336-338: recursive_loc is called with zero totals and no cursor.
StartWalk ==
  /\ InLoop
  /\ Unpacks(data[index + 1]) /\ IntCount(data[index + 1])
  /\ KeyMatches(data[index + 1], edges[index + 1])
  /\ edges[index + 1].total # NoBranch
  /\ IsStale(data[index + 1], edges[index + 1])
  /\ wcursor' = -1
  /\ acc' = NoAcc
  /\ attempt' = 1
  /\ pc' = "walk"
  /\ UNCHANGED <<remote, file, tmp, calls, defaultEdges, listing, force_cache,
                 lcursor, edges, data, cache_comment, index, cached, result,
                 outcome>>
  /\ seen' = Append(seen, "walk")
  /\ UNCHANGED <<preFile, base, finRec, pushed, prev>>

\* ------------------------------------ recursive_loc, loc_counter_one_repo

\* The commits the cursor has not passed: all of them for cursor None.
Top(h, cur) == IF cur = -1 THEN Len(h) ELSE cur

\* history(first: 100, after: $cursor): the newest commits older than the
\* cursor, newest first.
HistoryPage(h, cur) ==
  [i \in 1 .. Min(PageSize, Top(h, cur)) |-> h[Top(h, cur) - i + 1]]

EndCursor(h, cur) == Top(h, cur) - Min(PageSize, Top(h, cur))

HasNextPage(h, cur) == EndCursor(h, cur) > 0

\* The loop of line 251-255 without the test of line 252.
RECURSIVE PageSums_CountsAll(_, _)
PageSums_CountsAll(page, a) ==
  IF page = <<>> THEN a
  ELSE PageSums_CountsAll(Tail(page),
         [add |-> a.add + Head(page).additions,
          del |-> a.del + Head(page).deletions,
          my  |-> a.my + 1])

\* Line 251-255: the totals after the commits of one page.
RECURSIVE PageSums(_, _)
PageSums(page, a) ==
  IF page = <<>> THEN a
  ELSE LET c == Head(page)
           b == IF c.author = OWNER_ID
                THEN [add |-> a.add + c.additions,
                      del |-> a.del + c.deletions,
                      my  |-> a.my + 1]
                ELSE a
       IN PageSums(Tail(page), b)

\* Line 252: node['node']['author']['user'] raises TypeError when author is
\* None.
PageRaises(page) == \E i \in 1 .. Len(page) : page[i].author = "noauthor"

\* Line 339: the record written for a walked repository.
WalkedRecord(line, e, loc) == Line(line.key, e.total, loc.my, loc.add, loc.del)

WalkRepo == edges[index + 1].name

\* The retry without the test of attempt against max_attempts.
WalkRetry_NoLimit ==
  /\ pc = "walk"
  /\ attempt' = attempt + 1
  /\ UNCHANGED <<remote, file, tmp, pc, calls, defaultEdges, listing,
                 force_cache, lcursor, edges, data, cache_comment, index,
                 cached, wcursor, acc, result, outcome>>
  /\ UNCHANGED <<preFile, base, seen, finRec, pushed, prev>>

\* Line 206-215, 225-234: a network failure or a 5xx before the last attempt.
WalkRetry ==
  /\ pc = "walk"
  /\ attempt < max_attempts
  /\ attempt' = attempt + 1
  /\ UNCHANGED <<remote, file, tmp, pc, calls, defaultEdges, listing,
                 force_cache, lcursor, edges, data, cache_comment, index,
                 cached, wcursor, acc, result, outcome>>
  /\ UNCHANGED <<preFile, base, seen, finRec, pushed, prev>>

\* Line 210-212, 228-231: the same on the last attempt; force_close_file
\* gets data and cache_comment, the totals of the walk are dropped.
WalkExhausted ==
  /\ pc = "walk"
  /\ attempt = max_attempts
  /\ pc' = "force_close"
  /\ wcursor' = -1
  /\ acc' = NoAcc
  /\ attempt' = 0
  /\ UNCHANGED <<remote, file, tmp, calls, defaultEdges, listing, force_cache,
                 lcursor, edges, data, cache_comment, index, cached, result,
                 outcome>>
  /\ UNCHANGED <<preFile, base, seen, finRec, pushed, prev>>

\* Line 237-243: a 403 or another status that is neither 200 nor 5xx.
WalkFatal ==
  /\ pc = "walk"
  /\ pc' = "force_close"
  /\ wcursor' = -1
  /\ acc' = NoAcc
  /\ attempt' = 0
  /\ UNCHANGED <<remote, file, tmp, calls, defaultEdges, listing, force_cache,
                 lcursor, edges, data, cache_comment, index, cached, result,
                 outcome>>
  /\ UNCHANGED <<preFile, base, seen, finRec, pushed, prev>>

\* Line 218-220, 251-259: a 200 with a page that has a next page; the next
\* request gets the totals and the end cursor, and a fresh attempt count.
WalkPageMore ==
  /\ pc = "walk"
  /\ remote[WalkRepo] # <<>>
  /\ ~PageRaises(HistoryPage(remote[WalkRepo], wcursor))
  /\ HasNextPage(remote[WalkRepo], wcursor)
  /\ acc' = PageSums(HistoryPage(remote[WalkRepo], wcursor), acc)
  /\ wcursor' = EndCursor(remote[WalkRepo], wcursor)
  /\ attempt' = 1
  /\ UNCHANGED <<remote, file, tmp, pc, calls, defaultEdges, listing,
                 force_cache, lcursor, edges, data, cache_comment, index,
                 cached, result, outcome>>
  /\ UNCHANGED <<preFile, base, seen, finRec, pushed, prev>>

\* The last page with the records saved to the cache file for each walked
\* repository.
WalkPageLast_Saves ==
  /\ pc = "walk"
  /\ remote[WalkRepo] # <<>>
  /\ ~PageRaises(HistoryPage(remote[WalkRepo], wcursor))
  /\ ~HasNextPage(remote[WalkRepo], wcursor)
  /\ data' = [data EXCEPT ![index + 1] =
                WalkedRecord(@, edges[index + 1],
                  PageSums(HistoryPage(remote[WalkRepo], wcursor), acc))]
  /\ file' = File(cache_comment \o data')
  /\ index' = index + 1
  /\ wcursor' = -1
  /\ acc' = NoAcc
  /\ attempt' = 0
  /\ pc' = "loop"
  /\ UNCHANGED <<remote, tmp, calls, defaultEdges, listing, force_cache,
                 lcursor, edges, cache_comment, cached, result, outcome>>
  /\ finRec' = (index + 1 :> data'[index + 1]) @@ finRec
  /\ UNCHANGED <<preFile, base, seen, pushed, prev>>

\* Line 257-258, 339: a 200 with the last page; the totals are returned and
\* the record is replaced.  (Line 221-222, 340-341: had the branch vanished,
\* recursive_loc would return 0, loc[2] raise TypeError and the record become
\* zero; an append-only history keeps its branch.)
WalkPageLast ==
  /\ pc = "walk"
  /\ \/ remote[WalkRepo] = <<>>
     \/ /\ ~PageRaises(HistoryPage(remote[WalkRepo], wcursor))
        /\ ~HasNextPage(remote[WalkRepo], wcursor)
  /\ data' = [data EXCEPT ![index + 1] =
                IF remote[WalkRepo] = <<>>
                THEN Line(@.key, 0, 0, 0, 0)
                ELSE WalkedRecord(@, edges[index + 1],
                       PageSums(HistoryPage(remote[WalkRepo], wcursor), acc))]
  /\ index' = index + 1
  /\ wcursor' = -1
  /\ acc' = NoAcc
  /\ attempt' = 0
  /\ pc' = "loop"
  /\ UNCHANGED <<remote, file, tmp, calls, defaultEdges, listing, force_cache,
                 lcursor, edges, cache_comment, cached, result, outcome>>
  /\ finRec' = (index + 1 :> data'[index + 1]) @@ finRec
  /\ UNCHANGED <<preFile, base, seen, pushed, prev>>

\* Line 252, 340-341: a 200 with a page that holds a commit without author;
\* the TypeError of loc_counter_one_repo leaves recursive_loc and is caught
\* by cache_builder as if the repository were empty.
WalkTypeError ==
  /\ pc = "walk"
  /\ remote[WalkRepo] # <<>>
  /\ PageRaises(HistoryPage(remote[WalkRepo], wcursor))
  /\ data' = [data EXCEPT ![index + 1] = Line(@.key, 0, 0, 0, 0)]
  /\ index' = index + 1
  /\ wcursor' = -1
  /\ acc' = NoAcc
  /\ attempt' = 0
  /\ pc' = "loop"
  /\ UNCHANGED <<remote, file, tmp, calls, defaultEdges, listing, force_cache,
                 lcursor, edges, cache_comment, cached, result, outcome>>
  /\ finRec' = (index + 1 :> data'[index + 1]) @@ finRec
  /\ UNCHANGED <<preFile, base, seen, pushed, prev>>

\* ------------------------------------------------------- force_close_file

\* Line 401-402: writelines(cache_comment), writelines(data).
ForceCloseContent_RecordsOnly(c, d) == d
ForceCloseContent(c, d) == c \o d

\* Line 400-402: the temporary file gets the comment and the records.
ForceCloseWrite ==
  /\ pc = "force_close"
  /\ tmp' = File(ForceCloseContent(cache_comment, data))
  /\ pc' = "force_replace"
  /\ UNCHANGED <<remote, file, calls, defaultEdges, listing, force_cache,
                 lcursor, edges, data, cache_comment, index, cached, wcursor,
                 acc, attempt, result, outcome>>
  /\ UNCHANGED <<preFile, base, seen, finRec, pushed, prev>>

\* Line 403, then the raise after force_close_file: RuntimeError reaches the
\* caller of loc_query (it is no TypeError) and ends the process.
ForceCloseReplace ==
  /\ pc = "force_replace"
  /\ file' = tmp
  /\ ProcessEnds("RuntimeError")
  /\ UNCHANGED <<remote>>

\* Line 399-402 fail: open() of the temporary file raises (no file is made)
\* or a write does (the file is left with the lines written so far); the
\* except clause of line 404 takes over.
ForceCloseWriteFails ==
  /\ pc = "force_close"
  /\ \E k \in 0 .. Len(cache_comment \o data) :
       tmp' \in {tmp, File(Take(cache_comment \o data, k))}
  /\ pc' = "force_fallback"
  /\ UNCHANGED <<remote, file, calls, defaultEdges, listing, force_cache,
                 lcursor, edges, data, cache_comment, index, cached, wcursor,
                 acc, attempt, result, outcome>>
  /\ UNCHANGED <<preFile, base, seen, finRec, pushed, prev>>

\* Line 403 fails: os.replace raises, both files stay as they are.
ForceCloseReplaceFails ==
  /\ pc = "force_replace"
  /\ pc' = "force_fallback"
  /\ UNCHANGED <<remote, file, tmp, calls, defaultEdges, listing,
                 force_cache, lcursor, edges, data, cache_comment, index,
                 cached, wcursor, acc, attempt, result, outcome>>
  /\ UNCHANGED <<preFile, base, seen, finRec, pushed, prev>>

\* Line 407-409, 412, then the raise after force_close_file: the cache file
\* itself is opened for writing and gets the comment and the records.
FallbackWrite ==
  /\ pc = "force_fallback"
  /\ file' = File(ForceCloseContent(cache_comment, data))
  /\ ProcessEnds("RuntimeError")
  /\ UNCHANGED <<remote>>

\* The same without the except clause of line 410.
FallbackFails_Uncaught ==
  /\ pc = "force_fallback"
  /\ file' = file
  /\ ProcessEnds("OSError")
  /\ UNCHANGED <<remote>>

\* Line 407-412 fail: open() raises (the file stays as it is) or a write
\* does (the file keeps the lines written so far); line 410 catches it,
\* line 411-412 report, force_close_file returns and the caller raises.
FallbackFails ==
  /\ pc = "force_fallback"
  /\ \/ file' = file
     \/ \E k \in 0 .. Len(cache_comment \o data) - 1 :
          file' = File(Take(ForceCloseContent(cache_comment, data), k))
  /\ ProcessEnds("RuntimeError")
  /\ UNCHANGED <<remote>>

\* ------------------------------------------- the end of cache_builder

\* Line 343-346.
PersistWrite ==
  /\ pc = "persist"
  /\ tmp' = File(cache_comment \o data)
  /\ pc' = "replace"
  /\ UNCHANGED <<remote, file, calls, defaultEdges, listing, force_cache,
                 lcursor, edges, data, cache_comment, index, cached, wcursor,
                 acc, attempt, result, outcome>>
  /\ UNCHANGED <<preFile, base, seen, finRec, pushed, prev>>

RECURSIVE SumField(_, _)
SumField(ls, f) == IF ls = <<>> THEN 0 ELSE Head(ls)[f] + SumField(Tail(ls), f)

\* The sums of line 348-351 started one line late.
Aggregate_SkipsFirst(ls, c) ==
  [loc_add |-> SumField(Drop(ls, 1), "add"),
   loc_del |-> SumField(Drop(ls, 1), "del"),
   loc_net |-> SumField(Drop(ls, 1), "add") - SumField(Drop(ls, 1), "del"),
   cached |-> c]

\* Line 348-352.
Aggregate(ls, c) ==
  [loc_add |-> SumField(ls, "add"), loc_del |-> SumField(ls, "del"),
   loc_net |-> SumField(ls, "add") - SumField(ls, "del"), cached |-> c]

\* Line 347-352: os.replace, then the sums over data are returned, unless
\* a line of data has no fourth or fifth integer.
PersistReplace ==
  /\ pc = "replace"
  /\ file' = tmp
  /\ IF \E i \in 1 .. Len(data) : SumRaises(data[i])
     THEN ProcessEnds("ValueError")
     ELSE /\ pc' = "returned"
          /\ outcome' = "returned"
          /\ result' = <<Aggregate(data, cached)>>
          /\ tmp' = NoFile
          /\ UNCHANGED <<calls, defaultEdges, listing, force_cache, lcursor,
                         edges, data, cache_comment, index, cached, wcursor,
                         acc, attempt, preFile, base, seen, finRec, pushed,
                         prev>>
  /\ UNCHANGED <<remote>>

\* ------------------------------------------------------------ the process

\* The process is terminated at any step; the cache file stays as it is.
Kill ==
  /\ pc \notin {"idle", "returned"}
  /\ ProcessEnds("killed")
  /\ UNCHANGED <<remote, file>>

Init ==
  /\ remote = [r \in Repos |-> <<>>]
  /\ file = NoFile
  /\ tmp = NoFile
  /\ pc = "idle"
  /\ calls = 0
  /\ defaultEdges = <<>>
  /\ listing = <<>>
  /\ force_cache = FALSE
  /\ lcursor = 0
  /\ edges = <<>>
  /\ data = <<>>
  /\ cache_comment = <<>>
  /\ index = 0
  /\ cached = TRUE
  /\ wcursor = -1
  /\ acc = NoAcc
  /\ attempt = 0
  /\ result = NoResult
  /\ outcome = "none"
  /\ preFile = NoFile
  /\ base = <<>>
  /\ seen = <<>>
  /\ finRec = <<>>
  /\ pushed = FALSE
  /\ prev = NoPrev

Next ==
  \/ \E r \in PushRepos, c \in CommitKinds : Push(r, c)
  \/ \E L \in RepoLists, f \in BOOLEAN : StartProcess(L, f)
  \/ \E L \in RepoLists, f \in BOOLEAN : CallAgain(L, f)
  \/ LocQueryMore
  \/ LocQueryLast
  \/ LocQueryFail
  \/ OpenExisting
  \/ OpenMissing
  \/ CreateWrite
  \/ SkeletonValid
  \/ SkeletonInvalid
  \/ FlushWrite
  \/ FlushReplace
  \/ Split
  \/ LoopEnd
  \/ LoopIndexError
  \/ KeyMismatch
  \/ EmptyRepo
  \/ CacheHit
  \/ StartWalk
  \/ WalkRetry
  \/ WalkExhausted
  \/ WalkFatal
  \/ WalkPageMore
  \/ WalkPageLast
  \/ WalkTypeError
  \/ ForceCloseWrite
  \/ ForceCloseReplace
  \/ PersistWrite
  \/ PersistReplace
  \/ Kill

Spec == Init /\ [][Next]_vars

\* ----------------------------------------- passes over an edited store

\* Cache files with their comment block and two records, the first of
\* which has been edited: a lone key, a count that is no integer, a line of
\* three fields.
EditedLines ==
  { Line(Key("a"), Missing, Missing, Missing, Missing),
    Line(Key("a"), NaN, 0, 0, 0),
    Line(Key("a"), 1, 1, Missing, Missing) }

EditedStores ==
  { File(FirstRunData \o <<bad, ZeroRecord("b")>>) : bad \in EditedLines }

\* The histories of repository a while these passes run.
QuietHistories ==
  { <<>>,
    <<[author |-> "me", additions |-> 2, deletions |-> 1]>>,
    <<[author |-> "me", additions |-> 2, deletions |-> 1],
      [author |-> "other", additions |-> 3, deletions |-> 2]>>,
    <<[author |-> "noauthor", additions |-> 1, deletions |-> 2]>> }

InitStore ==
  /\ remote \in { [r \in Repos |-> IF r = "a" THEN h ELSE <<>>] :
                    h \in QuietHistories }
  /\ file \in EditedStores
  /\ tmp = NoFile
  /\ pc = "idle"
  /\ calls = 0
  /\ defaultEdges = <<>>
  /\ listing = <<>>
  /\ force_cache = FALSE
  /\ lcursor = 0
  /\ edges = <<>>
  /\ data = <<>>
  /\ cache_comment = <<>>
  /\ index = 0
  /\ cached = TRUE
  /\ wcursor = -1
  /\ acc = NoAcc
  /\ attempt = 0
  /\ result = NoResult
  /\ outcome = "none"
  /\ preFile = NoFile
  /\ base = <<>>
  /\ seen = <<>>
  /\ finRec = <<>>
  /\ pushed = FALSE
  /\ prev = NoPrev

\* The steps of the process; the remote is quiet, the file exists and has
\* its comment block, so that first-run creation and the IndexError of line
\* 332 have no state to start from.
NextStore ==
  \/ \E L \in RepoLists, f \in BOOLEAN : StartProcess(L, f)
  \/ \E L \in RepoLists, f \in BOOLEAN : CallAgain(L, f)
  \/ LocQueryMore
  \/ LocQueryLast
  \/ LocQueryFail
  \/ OpenExisting
  \/ SkeletonValid
  \/ SkeletonInvalid
  \/ FlushWrite
  \/ FlushReplace
  \/ Split
  \/ LoopEnd
  \/ LoopValueError
  \/ KeyMismatch
  \/ EmptyRepo
  \/ CacheHit
  \/ StartWalk
  \/ WalkRetry
  \/ WalkExhausted
  \/ WalkFatal
  \/ WalkPageMore
  \/ WalkPageLast
  \/ WalkTypeError
  \/ ForceCloseWrite
  \/ ForceCloseReplace
  \/ PersistWrite
  \/ PersistReplace
  \/ Kill

SpecStore == InitStore /\ [][NextStore]_vars

\* ------------------------------- passes over a failing file system

\* The histories of repository b while these passes run.
QuietHistoriesB == { <<>>, <<[author |-> "me", additions |-> 2, deletions |-> 1]>> }

InitFaults ==
  /\ remote \in { [r \in Repos |-> CASE r = "a" -> h [] r = "b" -> g
                                      [] OTHER -> <<>>] :
                    h \in QuietHistories, g \in QuietHistoriesB }
  /\ file = NoFile
  /\ tmp = NoFile
  /\ pc = "idle"
  /\ calls = 0
  /\ defaultEdges = <<>>
  /\ listing = <<>>
  /\ force_cache = FALSE
  /\ lcursor = 0
  /\ edges = <<>>
  /\ data = <<>>
  /\ cache_comment = <<>>
  /\ index = 0
  /\ cached = TRUE
  /\ wcursor = -1
  /\ acc = NoAcc
  /\ attempt = 0
  /\ result = NoResult
  /\ outcome = "none"
  /\ preFile = NoFile
  /\ base = <<>>
  /\ seen = <<>>
  /\ finRec = <<>>
  /\ pushed = FALSE
  /\ prev = NoPrev

\* The steps of the process on a quiet remote, with a file system whose
\* operations can fail inside force_close_file.
NextFaults ==
  \/ \E L \in RepoLists, f \in BOOLEAN : StartProcess(L, f)
  \/ \E L \in RepoLists, f \in BOOLEAN : CallAgain(L, f)
  \/ LocQueryMore
  \/ LocQueryLast
  \/ LocQueryFail
  \/ OpenExisting
  \/ OpenMissing
  \/ CreateWrite
  \/ SkeletonValid
  \/ SkeletonInvalid
  \/ FlushWrite
  \/ FlushReplace
  \/ Split
  \/ LoopEnd
  \/ LoopIndexError
  \/ KeyMismatch
  \/ EmptyRepo
  \/ CacheHit
  \/ StartWalk
  \/ WalkRetry
  \/ WalkExhausted
  \/ WalkFatal
  \/ WalkPageMore
  \/ WalkPageLast
  \/ WalkTypeError
  \/ ForceCloseWrite
  \/ ForceCloseWriteFails
  \/ ForceCloseReplace
  \/ ForceCloseReplaceFails
  \/ FallbackWrite
  \/ FallbackFails
  \/ PersistWrite
  \/ PersistReplace
  \/ Kill

SpecFaults == InitFaults /\ [][NextFaults]_vars

\* ------------------------------------- loc_counter_one_repo on one page

\* The commits a page can hold: those of the histories above and two with
\* larger deltas.
PageCommits ==
  CommitKinds \cup { [author |-> "me",    additions |-> 10,  deletions |-> 2],
                     [author |-> "other", additions |-> 100, deletions |-> 50] }

Pages == UNION { [1 .. n -> PageCommits] : n \in 0 .. MaxPage }

\* addition_total, deletion_total, my_commits as recursive_loc passes them:
\* zero for the first page, the totals so far for a later one.
StartAccs == { NoAcc, [add |-> 5, del |-> 3, my |-> 2] }

\* Line 246: loc_counter_one_repo is called with history.edges = the page
\* (kept in remote["a"]) and the totals so far (acc).
InitPage ==
  /\ remote \in { [r \in Repos |-> IF r = "a" THEN p ELSE <<>>] : p \in Pages }
  /\ acc \in StartAccs
  /\ pc = "page"
  /\ file = NoFile
  /\ tmp = NoFile
  /\ calls = 0
  /\ defaultEdges = <<>>
  /\ listing = <<>>
  /\ force_cache = FALSE
  /\ lcursor = 0
  /\ edges = <<>>
  /\ data = <<>>
  /\ cache_comment = <<>>
  /\ index = 0
  /\ cached = TRUE
  /\ wcursor = -1
  /\ attempt = 0
  /\ result = NoResult
  /\ outcome = "none"
  /\ preFile = NoFile
  /\ base = <<>>
  /\ seen = <<>>
  /\ finRec = <<>>
  /\ pushed = FALSE
  /\ prev = NoPrev

\* Line 251-255: the loop over the nodes of the page ends.
CountPage ==
  /\ pc = "page"
  /\ ~PageRaises(remote["a"])
  /\ acc' = PageSums(remote["a"], acc)
  /\ pc' = "counted"
  /\ UNCHANGED <<remote, file, tmp, calls, defaultEdges, listing, force_cache,
                 lcursor, edges, data, cache_comment, index, cached, wcursor,
                 attempt, result, outcome, preFile, base, seen, finRec,
                 pushed, prev>>

\* Line 252: a node without author raises TypeError; the totals are lost
\* with the frame.
CountPageRaises ==
  /\ pc = "page"
  /\ PageRaises(remote["a"])
  /\ pc' = "TypeError"
  /\ UNCHANGED <<remote, file, tmp, calls, defaultEdges, listing, force_cache,
                 lcursor, edges, data, cache_comment, index, cached, wcursor,
                 acc, attempt, result, outcome, preFile, base, seen, finRec,
                 pushed, prev>>

NextPage == CountPage \/ CountPageRaises

SpecPage == InitPage /\ [][NextPage]_vars

\* --------------------------------------------------- reading the store

\* Line 329-330, 486-487: the first comment_size lines are the comment block,
\* the lines after them the records.
Header(f) == Take(f.lines, CommentSize)
Records(f) == Drop(f.lines, CommentSize)

\* Line 488-489: commit_counter.
TotalAuthoredCommits(f) == SumField(Records(f), "my")

\* The records of a pass so far: those the loop wrote, the others as they
\* were when the loop began.
Merged(recs, written) ==
  [j \in 1 .. Len(recs) |-> IF j \in DOMAIN written THEN written[j] ELSE recs[j]]

\* The author-filtered sums over a whole history.
AuthorSums(h) == PageSums(h, NoAcc)

\* The record that sums up the complete history of r as it is now.
UpToDateRecord(r) ==
  IF remote[r] = <<>> THEN ZeroRecord(r)
  ELSE Line(Key(r), Len(remote[r]), AuthorSums(remote[r]).my,
            AuthorSums(remote[r]).add, AuthorSums(remote[r]).del)

\* ---------------------------------------------------------------- C1
\* C1 (idempotence): when a pass has returned and loc_query runs again with
\* the same listing, force_cache false and no push since the first pass
\* began, the second pass leaves the stored records as they were and returns
\* cached = True; in the same process as well as after a restart.
C1_Idempotent ==
  (pc = "returned" /\ prev.outcome = "returned")
    => (Records(file) = Records(preFile) /\ result[1].cached)

\* ---------------------------------------------------------------- C2
\* The header of the store a pass started from; a pass that found no file
\* starts from the comment block it creates.
PreHeader == IF preFile.exists THEN Header(preFile) ELSE FirstRunData

\* C2 (atomicity under termination): when the process is terminated at any
\* step of a pass, the cache file is either as it was before the pass, or
\* holds the records this pass finalized and the earlier records elsewhere;
\* it is never truncated: it has its whole comment block.
C2_AtomicUnderTermination ==
  [][(outcome = "running" /\ outcome' = "killed")
       => /\ \/ file' = preFile
             \/ file' = File(PreHeader \o Merged(Records(preFile), finRec))
          /\ file'.exists => Len(file'.lines) >= CommentSize]_vars

\* ---------------------------------------------------------------- C3
\* C3 (a fatal response aborts the pass): when the walk of position index
\* ends with force_close_file, (a) the loop has visited no later position,
\* (b) the file then holds the comment block, the records written in this
\* pass before index and, from index on, the records as they were when the
\* loop began, and (c) the pass ends with the exception and no result.
C3_FatalAborts ==
  [][(outcome = "running" /\ outcome' = "RuntimeError")
       => /\ Len(seen) = index + 1
          /\ seen[index + 1] = "walk"
          /\ DOMAIN finRec \subseteq 1 .. index
          /\ \A j \in 1 .. index : seen[j] = "walk" => j \in DOMAIN finRec
          /\ file' = File(cache_comment \o Merged(base, finRec))
          /\ \A j \in index + 1 .. Len(base) : Records(file')[j] = base[j]
          /\ pc' = "idle"
          /\ result' = NoResult]_vars

\* A pass aborted at the second position after it had walked the first one;
\* the file holds the first one's new record.
C3_Witness ==
  /\ outcome = "RuntimeError"
  /\ index = 1
  /\ 1 \in DOMAIN finRec
  /\ finRec[1].total > 0
  /\ Len(Records(file)) = 2
  /\ Records(file)[1] = finRec[1]

\* ---------------------------------------------------------------- C4
RepoOfKey(k) == CHOOSE r \in Repos : Key(r) = k

\* C4 (complete summaries): every stored record with total commit count c
\* holds the author-filtered sums over the first c commits of its
\* repository, and my commits are at most c.
C4_CompleteSummaries ==
  \A j \in 1 .. Len(Records(file)) :
    LET rec == Records(file)[j]
        h == remote[RepoOfKey(rec.key)]
    IN (\E r \in Repos : Key(r) = rec.key)
         => /\ rec.total <= Len(h)
            /\ rec.my <= rec.total
            /\ rec.my = AuthorSums(Take(h, rec.total)).my
            /\ rec.add = AuthorSums(Take(h, rec.total)).add
            /\ rec.del = AuthorSums(Take(h, rec.total)).del

\* ---------------------------------------------------------------- C5
\* C5 (skeleton rebuild): the skeleton is rebuilt exactly when the number of
\* stored records differs from the number of edges or force_cache is set;
\* after a rebuild, and before the loop visits a position, the store holds
\* one zero record per edge, in order; without a rebuild the loop starts
\* from the stored records.
C5_SkeletonRebuild ==
  [][/\ (pc = "check" /\ pc' \in {"flush", "split"})
          => (pc' = "flush"
                <=> (Len(Records(file)) # Len(edges) \/ force_cache))
     /\ (pc = "flush_replace" /\ pc' = "split")
          => (Records(file') = Skeleton(edges) /\ seen = <<>>)
     /\ (pc = "split" /\ pc' = "loop")
          => (base' = Records(file) /\ seen' = <<>>)]_vars

\* ---------------------------------------------------------------- C6
\* C6 (header preservation): every rewrite of an existing cache file
\* (flush_cache, the final write, force_close_file) leaves the comment block
\* as it was before the pass, whatever the number of lines of the file.
C6_HeaderPreserved ==
  [][(preFile.exists /\ pc \in {"flush_replace", "replace", "force_replace"}
        /\ file' # file)
       => Header(file') = Header(preFile)]_vars

\* ---------------------------------------------------------------- C7
\* C7 (no half-written file): every change of the cache file is the
\* replacement by a temporary file written in full, comment block and
\* records; first-run creation included.
C7_NeverHalfWritten ==
  [][file' # file
       => /\ tmp.exists
          /\ file' = tmp
          /\ Len(file'.lines) >= CommentSize]_vars

\* ---------------------------------------------------------------- C8
\* C8 (surviving partial failure): when a pass ended in force_close_file and
\* the next pass has the same listing, force_cache false and no push since
\* before the aborted pass, that pass does not walk the positions the
\* aborted pass had finalized and keeps their records; and, as nothing
\* fails in it, it returns with every record up to date.
C8_SurvivesPartialFailure ==
  (pc = "returned" /\ prev.outcome = "RuntimeError")
    => /\ \A j \in prev.fin :
            /\ seen[j] # "walk"
            /\ Records(file)[j] = Records(preFile)[j]
       /\ Len(Records(file)) = Len(edges)
       /\ \A j \in 1 .. Len(edges) :
            Records(file)[j] = UpToDateRecord(edges[j].name)

\* ---------------------------------------------------------------- C9
\* C9 (cache hit): a visited position whose stored key matches and whose
\* stored count is the fetched totalCount is not walked and not rewritten
\* by the loop, and the file written at the end of the pass (by the final
\* write or by force_close_file) holds its record as it was.
C9_CacheHit ==
  [][/\ \A j \in 1 .. Len(seen') :
          (KeyMatches(base'[j], edges'[j])
             /\ base'[j].total = edges'[j].total)
            => /\ seen'[j] = "hit"
               /\ data'[j] = base'[j]
               /\ j \notin DOMAIN finRec'
     /\ (pc \in {"replace", "force_replace"})
          => /\ \A j \in 1 .. Len(seen) :
                  seen[j] = "hit" => Records(file')[j] = base[j]
             /\ cached => base = Records(preFile)]_vars

\* A returned pass whose first position was a hit on a record with commits,
\* while the second position was walked.
C9_Witness ==
  /\ pc = "returned"
  /\ Len(seen) = 2
  /\ seen[1] = "hit"
  /\ seen[2] = "walk"
  /\ base[1].total > 0
  /\ Records(file)[1] = base[1]

\* ---------------------------------------------------------------- C10
\* C10 (monotonicity): when a pass without rebuild returns, a position whose
\* fetched totalCount is greater than the stored count has my commits,
\* additions and deletions at least as large as the stored ones, whatever
\* the authors of the new commits.
C10_Monotone ==
  (pc = "returned" /\ cached)
    => \A j \in 1 .. Len(edges) :
         (KeyMatches(base[j], edges[j]) /\ edges[j].total > base[j].total)
           => /\ Records(file)[j].my >= base[j].my
              /\ Records(file)[j].add >= base[j].add
              /\ Records(file)[j].del >= base[j].del

\* ---------------------------------------------------------------- C11
\* The loop is at a position whose repository has no default branch, and the
\* step is one of the process (no push, no termination).
AtEmptyRepo ==
  /\ InLoop
  /\ edges[index + 1].total = NoBranch
  /\ remote' = remote
  /\ outcome' # "killed"

\* What C11 asks of that step: the record of the position becomes
\* 'key 0 0 0 0' with the key of the supplied repository, no page is
\* requested, force_close_file is not entered, no file is touched and the
\* loop goes on to the next position.
EmptyRepoStep ==
  /\ data' = [data EXCEPT ![index + 1] = ZeroRecord(edges[index + 1].name)]
  /\ index' = index + 1
  /\ pc' = "loop"
  /\ seen' = Append(seen, "empty")
  /\ attempt' = attempt
  /\ file' = file
  /\ tmp' = tmp
  /\ outcome' = "running"

Mine(page) == { i \in 1 .. Len(page) : page[i].author = OWNER_ID }

RECURSIVE SumOver(_, _, _)
SumOver(page, S, f) ==
  IF S = {} THEN 0
  ELSE LET i == CHOOSE x \in S : TRUE
       IN page[i][f] + SumOver(page, S \ {i}, f)

ExamplePage ==
  << [author |-> "me",    additions |-> 10,  deletions |-> 2],
     [author |-> "other", additions |-> 100, deletions |-> 50],
     [author |-> "other", additions |-> 100, deletions |-> 50] >>

\* C12 (identity filtering): over a page, my_commits grows by the number of
\* commits of the tracked identity, addition_total and deletion_total by
\* their additions and deletions, and by nothing else; one tracked commit
\* (+10, -2) with two foreign ones (+100, -50) gives (+10, -2, 1).
C12_IdentityFiltering ==
  [][(pc = "page" /\ pc' = "counted")
       => /\ acc'.my = acc.my + Cardinality(Mine(remote["a"]))
          /\ acc'.add = acc.add + SumOver(remote["a"], Mine(remote["a"]),
                                          "additions")
          /\ acc'.del = acc.del + SumOver(remote["a"], Mine(remote["a"]),
                                          "deletions")
          /\ (remote["a"] = ExamplePage /\ acc = NoAcc)
               => acc' = [add |-> 10, del |-> 2, my |-> 1]]_vars

\* The page of the example, counted from zero totals.
C12_Witness ==
  /\ pc = "counted"
  /\ remote["a"] = ExamplePage
  /\ acc = [add |-> 10, del |-> 2, my |-> 1]

\* ---------------------------------------------------------------- C13
\* A history with a commit whose author identity is none: no account behind
\* the author, or no author at all.
HasNoneAuthor(h) ==
  \E i \in 1 .. Len(h) : h[i].author \in {"none", "noauthor"}

\* C13 (commits without identity are left out): when the walk of a
\* repository with such a commit ends, in a pass during which nothing was
\* pushed, the pass goes on and the record written carries the fetched
\* total and the full sums of the commits of the tracked identity; it is
\* not the record of an empty repository.
C13_NoneAuthorExcluded ==
  [][(pc = "walk" /\ pc' = "loop" /\ ~pushed
        /\ HasNoneAuthor(remote[WalkRepo]))
       => /\ outcome' = "running"
          /\ data'[index + 1] =
               Line(Key(WalkRepo), edges[index + 1].total,
                    AuthorSums(remote[WalkRepo]).my,
                    AuthorSums(remote[WalkRepo]).add,
                    AuthorSums(remote[WalkRepo]).del)]_vars

\* ---------------------------------------------------------------- C14
\* C14 (key mismatch): at a position whose stored key is not the key of the
\* supplied repository the loop changes no record, requests no page, enters
\* no force_close_file, touches no file and goes on to the next position;
\* the file written at the end of the pass holds the record as it was, and
\* a pass that returns has visited every position.
C14_KeyMismatch ==
  [][/\ (InLoop /\ data[index + 1].key # Key(edges[index + 1].name)
           /\ remote' = remote /\ outcome' # "killed")
          => /\ data' = data
             /\ index' = index + 1
             /\ pc' = "loop"
             /\ seen' = Append(seen, "mismatch")
             /\ attempt' = attempt
             /\ file' = file
             /\ tmp' = tmp
             /\ outcome' = "running"
     /\ (pc \in {"replace", "force_replace"} /\ outcome' # "killed")
          => \A j \in 1 .. Len(seen) :
               seen[j] = "mismatch" => Records(file')[j] = base[j]
     /\ (pc = "replace" /\ pc' = "returned")
          => Len(seen) = Len(edges)]_vars

\* A returned pass that skipped position 2, where the record of another
\* repository is stored, after walking position 1.
C14_Witness ==
  /\ pc = "returned"
  /\ Len(seen) = 2
  /\ seen[1] = "walk"
  /\ seen[2] = "mismatch"
  /\ Records(file)[2].key # Key(edges[2].name)
  /\ Records(file)[2] = base[2]
  /\ Records(file)[1].total = edges[1].total

\* ---------------------------------------------------------------- C15
\* A stored line with fewer than five fields or with a word for a counter.
Malformed(line) ==
  \E f \in {"total", "my", "add", "del"} : line[f] \in {NaN, Missing}

\* C15 (malformed line): at a position whose stored line is malformed the
\* loop leaves the line alone and goes on to the next position without
\* raising, and once the records are written the pass returns its sums.
C15_MalformedSkipped ==
  [][/\ (InLoop /\ Malformed(data[index + 1]) /\ outcome' # "killed")
          => /\ outcome' = "running"
             /\ pc' = "loop"
             /\ index' = index + 1
             /\ data' = data
     /\ (pc = "replace" /\ outcome' # "killed") => pc' = "returned"]_vars

\* ---------------------------------------------------------------- C16
InForceClose == pc \in {"force_close", "force_replace", "force_fallback"}

\* C16 (force_close_file never raises): whatever its file operations do,
\* every step of the process inside force_close_file either stays inside it
\* or ends with the RuntimeError of the failed walk and no result; when the
\* temporary file or the replacement fails, the cache file itself is
\* opened next, and it is then left as it was, or with the comment and the
\* records, or with the lines of them written before the failure.
C16_CrashGuardNeverRaises ==
  [][(InForceClose /\ outcome' # "killed")
       => /\ \/ (pc' \in {"force_replace", "force_fallback"}
                   /\ outcome' = "running")
             \/ (pc' = "idle" /\ outcome' = "RuntimeError"
                   /\ result' = NoResult)
          /\ (pc \in {"force_close", "force_replace"} /\ pc' # "idle"
                /\ pc' # "force_replace")
               => (pc' = "force_fallback" /\ file' = file)
          /\ pc = "force_fallback"
               => \/ file' = file
                  \/ \E k \in 0 .. Len(cache_comment \o data) :
                       file' = File(Take(cache_comment \o data, k))]_vars

\* A pass over <<a, b>> aborted at position 2; the temporary file failed
\* and the direct write of the cache file stopped after the comment block.
C16_Witness ==
  /\ outcome = "RuntimeError"
  /\ listing = <<"a", "b">>
  /\ index = 1
  /\ file = File(FirstRunData)

\* ---------------------------------------------------------------- C17
\* C17 (one write per pass): from the split of the file content to the end
\* of the pass the cache file changes in one step only, the os.replace of
\* the final write or the one of force_close_file, and that step ends the
\* pass: a pass returns only through the first and raises RuntimeError only
\* through the second, so never both; the loop and the walks, whatever the
\* number of repositories, leave the file alone.
C17_SinglePersist ==
  [][/\ pc \in {"split", "loop", "walk", "persist", "force_close"}
          => file' = file
     /\ (pc = "replace" /\ outcome' # "killed" /\ remote' = remote)
          => /\ file' = File(cache_comment \o data)
             /\ pc' = "returned"
             /\ outcome' = "returned"
     /\ (pc = "force_replace" /\ outcome' # "killed" /\ remote' = remote)
          => /\ file' = File(cache_comment \o data)
             /\ pc' = "idle"
             /\ outcome' = "RuntimeError"
     /\ (outcome = "running" /\ outcome' = "returned") => pc = "replace"
     /\ (outcome = "running" /\ outcome' = "RuntimeError")
          => pc = "force_replace"]_vars

\* A returned pass that walked both positions and wrote both new records
\* in its one write.
C17_Witness ==
  /\ pc = "returned"
  /\ seen = <<"walk", "walk">>
  /\ file = File(cache_comment \o data)
  /\ Records(file) # Records(preFile)
  /\ data[1].total > 0
  /\ data[2].total > 0

\* ---------------------------------------------------------------- C18
\* C18 (aggregates): when a pass has returned, its loc_add and loc_del are
\* the sums of the fourth and fifth field over the records now in the
\* cache file, the third value is their difference, and commit_counter,
\* reading the file, finds the sum of the third field of the same records.
C18_AggregatesMatch ==
  pc = "returned"
    => /\ Records(file) = data
       /\ result[1].loc_add = SumField(Records(file), "add")
       /\ result[1].loc_del = SumField(Records(file), "del")
       /\ result[1].loc_net = result[1].loc_add - result[1].loc_del
       /\ TotalAuthoredCommits(file) = SumField(data, "my")

\* A returned pass over two repositories with one commit of the tracked
\* identity each.
C18_Witness ==
  /\ pc = "returned"
  /\ Len(Records(file)) = 2
  /\ Records(file)[1].my = 1
  /\ Records(file)[2].my = 1
  /\ result[1].loc_add = 4
  /\ result[1].loc_del = 2
  /\ result[1].loc_net = 2
  /\ TotalAuthoredCommits(file) = 2

\* ---------------------------------------------------------------- C19
\* The commits of h served so far to a walk whose next request carries cur:
\* the pages are served newest first, each page once.
Served(h, cur) == Drop(h, Top(h, cur))

\* C19 (the result of a walk): in a pass during which nothing is pushed,
\* the totals a walk carries to its next request are the author-filtered
\* sums over the pages served so far, through retries as well, each request
\* moves on by one page, and the walk ends by returning the sums over all
\* commits of all pages, which line 339 writes with the fetched total.
C19_WalkerResult ==
  [][(pc = "walk" /\ ~pushed /\ remote' = remote /\ outcome' # "killed")
       => /\ acc = AuthorSums(Served(remote[WalkRepo], wcursor))
          /\ pc' = "walk"
               => /\ acc' = AuthorSums(Served(remote[WalkRepo], wcursor'))
                  /\ \/ wcursor' = wcursor
                     \/ Served(remote[WalkRepo], wcursor') =
                          Served(remote[WalkRepo], wcursor)
                            \o HistoryPage(remote[WalkRepo], wcursor)
          /\ pc' = "loop"
               => /\ ~HasNextPage(remote[WalkRepo], wcursor)
                  /\ data'[index + 1] =
                       Line(Key(WalkRepo), edges[index + 1].total,
                            AuthorSums(remote[WalkRepo]).my,
                            AuthorSums(remote[WalkRepo]).add,
                            AuthorSums(remote[WalkRepo]).del)]_vars

\* ---------------------------------------------------------------- C20
\* C20 (retry policy): a page request is at attempt 1 to 4; another attempt
\* at the same page is made only after attempts 1 to 3, one at a time, with
\* the totals, the cursor and both files as they were (no force_close_file);
\* a request for the next page starts at attempt 1 again; a walk leaves its
\* request for the next page, for the loop (a 200) or for force_close_file,
\* which is entered from a walk only, with data as the loop left it, and
\* runs once: it writes, replaces, and RuntimeError is raised.
C20_RetryPolicy ==
  [][/\ (pc = "walk" /\ outcome' # "killed" /\ remote' = remote)
          => /\ attempt \in 1 .. 4
             /\ pc' \in {"walk", "loop", "force_close"}
             /\ (pc' = "walk" /\ wcursor' = wcursor)
                  => /\ attempt < 4
                     /\ attempt' = attempt + 1
                     /\ acc' = acc
                     /\ file' = file
                     /\ tmp' = tmp
             /\ (pc' = "walk" /\ wcursor' # wcursor) => attempt' = 1
             /\ pc' = "loop" => (file' = file /\ tmp' = tmp)
             /\ pc' = "force_close"
                  => (data' = data /\ file' = file /\ tmp' = tmp)
     /\ (pc # "force_close" /\ pc' = "force_close") => pc = "walk"
     /\ (pc = "force_close" /\ outcome' # "killed" /\ remote' = remote)
          => pc' = "force_replace"
     /\ (pc = "force_replace" /\ outcome' # "killed" /\ remote' = remote)
          => (pc' = "idle" /\ outcome' = "RuntimeError")]_vars

\* The request for the second page of a history at its fourth attempt.
C20_Witness ==
  /\ pc = "walk"
  /\ wcursor # -1
  /\ attempt = max_attempts
  /\ acc.my > 0

\* ---------------------------------------------------------------- C21
\* A step of the running process itself: every step of NextFaults but the
\* start of a pass and the termination from outside.
PassStep ==
  \/ LocQueryMore
  \/ LocQueryLast
  \/ LocQueryFail
  \/ OpenExisting
  \/ OpenMissing
  \/ CreateWrite
  \/ SkeletonValid
  \/ SkeletonInvalid
  \/ FlushWrite
  \/ FlushReplace
  \/ Split
  \/ LoopEnd
  \/ LoopIndexError
  \/ KeyMismatch
  \/ EmptyRepo
  \/ CacheHit
  \/ StartWalk
  \/ WalkRetry
  \/ WalkExhausted
  \/ WalkFatal
  \/ WalkPageMore
  \/ WalkPageLast
  \/ WalkTypeError
  \/ ForceCloseWrite
  \/ ForceCloseWriteFails
  \/ ForceCloseReplace
  \/ ForceCloseReplaceFails
  \/ FallbackWrite
  \/ FallbackFails
  \/ PersistWrite
  \/ PersistReplace

\* The interpreter runs the process as long as it has a step to take; which
\* response the remote gives, and whether a file operation fails, stays
\* open.
SpecLive == InitFaults /\ [][NextFaults]_vars /\ WF_vars(PassStep)

InPass == pc \notin {"idle", "returned", "loc_query"}

\* C21 (termination): a pass of cache_builder that has begun comes to an
\* end, whatever the remote answers.
C21_Terminates == InPass ~> ~InPass

\* C21 (the ways a pass ends): a pass of cache_builder that is not
\* terminated from outside ends either by returning its result from the
\* final os.replace, or with RuntimeError out of force_close_file; and a
\* page request is never past its fourth attempt.
C21_PassEnds ==
  [][/\ (InPass /\ ~InPass' /\ outcome' # "killed")
          => \/ pc = "replace" /\ pc' = "returned" /\ outcome' = "returned"
             \/ /\ pc \in {"force_replace", "force_fallback"}
                /\ outcome' = "RuntimeError"
     /\ pc = "walk" => attempt \in 1 .. max_attempts]_vars

\* ---------------------------------------------------------------- C22
\* Line 339, 341: the total a record is to hold for a listed repository,
\* the fetched totalCount, or 0 without a default branch.
FetchedTotal(e) == IF e.total = NoBranch THEN 0 ELSE e.total

\* C22 (freshness after success): when a pass has returned, the cache file
\* holds one record per supplied repository, and the record at position i
\* has the key of repository i and the total fetched for it in this pass.
C22_FreshAfterSuccess ==
  pc = "returned"
    => /\ Len(file.lines) = CommentSize + Len(edges)
       /\ \A i \in 1 .. Len(edges) :
            /\ file.lines[CommentSize + i].key = Key(edges[i].name)
            /\ file.lines[CommentSize + i].total = FetchedTotal(edges[i])

\* ---------------------------------------------------------------- C23
\* Line 313-323: the test of line 323 as this pass made it, on the lines
\* read from the file the pass found (those of first-run creation if there
\* was none).
Rebuilt ==
  NeedsRebuild(IF preFile.exists THEN preFile.lines ELSE FirstRunData,
               edges, force_cache)

\* Line 337: recursive_loc was called for some position of this pass.
Walked == \E i \in 1 .. Len(seen) : seen[i] = "walk"

\* C23 (meaning of wasFullyCached): the flag a pass returns is true exactly
\* when the pass rebuilt no skeleton and called recursive_loc for no
\* position.
C23_WasFullyCached ==
  pc = "returned" => (result[1].cached <=> (~Rebuilt /\ ~Walked))

====
